---- MODULE Spec2Model ----
(***************************************************************************)
(* Universal Document Reader (src/app.py): a Streamlit script that, on     *)
(* every run, converts each uploaded file to text through a temporary      *)
(* file, records a size statistic per file, and shows the statistics of    *)
(* the latest batch in a second tab.                                       *)
(*                                                                         *)
(* Representation choices                                                  *)
(*  - A byte count handed to format_size is a little-endian sequence of    *)
(*    six base-1024 digits (Bytes(n) for a small natural n), so that       *)
(*    the GB and TB ranges are reachable without overflowing TLC's         *)
(*    integers.  Counts stay below 2^53, where Python's int -> float       *)
(*    conversion and the divisions by 1024 are exact.                      *)
(*  - The string f"{x:.2f} {unit}" is the record [unit, hundredths]: the   *)
(*    number printed, times 100, after Python's round-half-even.           *)
(*  - A converted text is [len, enc]: its UTF-8 length and whether         *)
(*    str.encode('utf-8') accepts it (a lone surrogate makes it raise).    *)
(*  - state, calls, caught, run_no, uploaded_total and the src field of a   *)
(*    stats entry are history variables: the program has no such fields;   *)
(*    they record which line ranges of the per-file try block each file    *)
(*    has gone through, and which batch an entry came from.                *)
(***************************************************************************)
EXTENDS Integers, Sequences, FiniteSets, TLC

VARIABLES
    session_state,   \* st.session_state: function from keys to values
    uploaded_files,  \* the file_uploader's value in the current run
    pc,              \* position of the script run
    i,               \* index of the for loop's current file (0 before the first)
    current_stats,   \* the local list of line 79
    text_content,    \* the local of line 85
    fs,              \* temporary files that exist on disk
    state,           \* history: per-file state of the current batch
    calls,           \* history: md_engine.convert invocations for file i
    run_no,          \* history: number of non-empty batches started
    uploaded_total,  \* history: number of files handed to the script so far
    view,            \* what tab2 rendered in the latest run
    reduction,       \* the local of lines 93-96, as a fraction num/den
    e,               \* the exception bound by line 136 ("none": unbound)
    caught,          \* history: per file, the step whose exception was caught
    fmt_in,          \* format_size harness: the argument
    fmt_out          \* format_size harness: the result

vars == <<session_state, uploaded_files, pc, i, current_stats, text_content,
          fs, state, calls, run_no, uploaded_total, view, reduction, e, caught,
          fmt_in, fmt_out>>

sessionVars == <<session_state, uploaded_files, pc, i, current_stats,
                 text_content, fs, state, calls, run_no, uploaded_total,
                 view, reduction, e, caught>>

fmtVars == <<fmt_in, fmt_out>>

-----------------------------------------------------------------------------
(* Bounds *)

\* files handed to the script over the whole session, in any batches
MaxUploaded == 3

\* largest value of the top base-1024 digit of a format_size argument
MaxTop == 1

-----------------------------------------------------------------------------
(* format_size, lines 30-36 *)

Kilo == 1024

Units == <<"B", "KB", "MB", "GB">>

RECURSIVE Digits(_, _)
\* n as k base-1024 digits, least significant first
Digits(n, k) == IF k = 0 THEN <<>> ELSE <<n % Kilo>> \o Digits(n \div Kilo, k - 1)

Bytes(n) == Digits(n, 6)

RECURSIVE IntVal(_)
\* the integer a (short) digit sequence stands for
IntVal(d) == IF d = <<>> THEN 0 ELSE Head(d) + Kilo * IntVal(Tail(d))

RECURSIVE AllZero(_)
AllZero(d) == d = <<>> \/ (Head(d) = 0 /\ AllZero(Tail(d)))

\* A magnitude during the loop: integer digits (least significant first) and
\* fraction digits (most significant first).
Magnitude(d) == [int |-> d, frac |-> <<>>]

\* size_in_bytes < 1024 (line 33)
BelowKiloLeq(v) ==
    \/ AllZero(Tail(v.int))
    \/ v.int[1] = 0 /\ v.int[2] = 1 /\ AllZero(Tail(Tail(v.int))) /\ AllZero(v.frac)

BelowKilo(v) == AllZero(Tail(v.int))

\* size_in_bytes /= 1024 (line 35): exact below 2^53
DivKilo(v) == [int |-> Tail(v.int) \o <<0>>, frac |-> <<Head(v.int)>> \o v.frac]

RECURSIVE MulFrac(_, _)
\* fraction digits times m: [carry into the integer part, digits]
MulFrac(f, m) ==
    IF f = <<>> THEN [carry |-> 0, digits |-> <<>>]
    ELSE LET r == MulFrac(Tail(f), m)
             p == Head(f) * m + r.carry
         IN [carry |-> p \div Kilo, digits |-> <<p % Kilo>> \o r.digits]

\* f"{v:.2f}" as hundredths: the exact value times 100, rounded half to even
TwoDecimals(v) ==
    LET r == MulFrac(v.frac, 100)
        q == IntVal(v.int) * 100 + r.carry
        half == Kilo \div 2
        up == /\ r.digits # <<>>
              /\ \/ Head(r.digits) > half
                 \/ Head(r.digits) = half /\ ~AllZero(Tail(r.digits))
                 \/ Head(r.digits) = half /\ AllZero(Tail(r.digits)) /\ q % 2 = 1
    IN q + (IF up THEN 1 ELSE 0)

RECURSIVE FormatLoop(_, _)
\* the for loop of lines 32-35 at unit k, and the TB return of line 36
FormatLoop(v, k) ==
    IF k > Len(Units) THEN [unit |-> "TB", hundredths |-> TwoDecimals(v)]
    ELSE IF BelowKilo(v) THEN [unit |-> Units[k], hundredths |-> TwoDecimals(v)]
    ELSE FormatLoop(DivKilo(v), k + 1)

format_size(size_in_bytes) == FormatLoop(Magnitude(size_in_bytes), 1)

-----------------------------------------------------------------------------
(* process_file, lines 38-60 *)

\* What the environment does to one call: which system or library calls
\* raise, and the text the converter returns when it does not raise.
Texts == { [len |-> 0, enc |-> TRUE], [len |-> 4096, enc |-> TRUE],
           [len |-> 2, enc |-> FALSE] }

NoText == [len |-> 0, enc |-> FALSE]

Envs == [create_fails : BOOLEAN, stage_fails : BOOLEAN, convert_fails : BOOLEAN,
         unlink_fails : BOOLEAN, unlink_again_fails : BOOLEAN, text : Texts]

\* the name NamedTemporaryFile picks: one that no existing file has
\* (names are opaque; the least unused one stands for any of them)
NewName(disk) ==
    CHOOSE n \in 1..(Cardinality(disk) + 1) :
        n \notin disk /\ \A m \in 1..(n - 1) : m \in disk

\* the except clause, lines 57-60; bound: 'tmp_path' in locals(); what
\* propagates is the exception caught (named by the call that raised it), or
\* that of line 59's os.remove when it raises in turn
except_clause(bound, tmp_path, env, disk, called, exc) ==
    IF bound /\ tmp_path \in disk
    THEN IF env.unlink_again_fails
         THEN [raised |-> "os.remove in except", text |-> NoText,
               called |-> called, fs |-> disk]
         ELSE [raised |-> exc, text |-> NoText, called |-> called,
               fs |-> disk \ {tmp_path}]
    ELSE [raised |-> exc, text |-> NoText, called |-> called, fs |-> disk]

\* tmp_path is the name NamedTemporaryFile picked for this call
process_file(uploaded_file, tmp_path, env, disk) ==
    IF env.create_fails                                   \* line 44 raises
    THEN except_clause(FALSE, tmp_path, env, disk, FALSE, "NamedTemporaryFile")
    ELSE LET staged == disk \cup {tmp_path} IN
         IF env.stage_fails                               \* line 45 raises
         THEN except_clause(FALSE, tmp_path, env, staged, FALSE, "write")
         ELSE IF env.convert_fails                        \* line 49 raises
         THEN except_clause(TRUE, tmp_path, env, staged, TRUE, "convert")
         ELSE IF env.unlink_fails                         \* line 53 raises
         THEN except_clause(TRUE, tmp_path, env, staged, TRUE, "os.remove")
         ELSE [raised |-> "none", text |-> env.text, called |-> TRUE,
               fs |-> staged \ {tmp_path}]

-----------------------------------------------------------------------------
(* size statistics, lines 88-104 *)

\* a / b of Python: raises ZeroDivisionError when b = 0
TrueDiv(a, b) == IF b = 0 THEN [raised |-> TRUE, num |-> 0, den |-> 1]
                 ELSE [raised |-> FALSE, num |-> a, den |-> b]

Unbound == [num |-> 0, den |-> 0]

Zero == [num |-> 0, den |-> 1]

\* lines 93-96 with the guard dropped
ReductionUnguarded(original_size, converted_size) ==
    LET q == TrueDiv(converted_size, original_size)
    IN [raised |-> q.raised, value |-> [num |-> (q.den - q.num) * 100, den |-> q.den]]

\* lines 93-96: (1 - converted/original) * 100, or 0
Reduction(original_size, converted_size) ==
    IF original_size > 0
    THEN LET q == TrueDiv(converted_size, original_size)
         IN [raised |-> q.raised,
             value |-> [num |-> (q.den - q.num) * 100, den |-> q.den]]
    ELSE [raised |-> FALSE, value |-> Zero]

\* f"{r:.1f}" as tenths: num/den times 10, rounded half to even
OneDecimal(r) ==
    LET neg == r.num < 0
        a == (IF neg THEN 0 - r.num ELSE r.num) * 10
        q == a \div r.den
        m == a % r.den
        up == 2 * m > r.den \/ (2 * m = r.den /\ q % 2 = 1)
        t == q + (IF up THEN 1 ELSE 0)
    IN IF neg THEN 0 - t ELSE t

\* lines 98-103; src is history: the batch and position the entry came from
stat_entry(uploaded_file, converted_size, r, src) ==
    [FileName |-> uploaded_file.name,
     OriginalSize |-> format_size(Bytes(uploaded_file.size)),
     ConvertedSize |-> format_size(Bytes(converted_size)),
     Reduction |-> OneDecimal(r),
     src |-> src]

-----------------------------------------------------------------------------
(* the script, lines 62-165 *)

Files == { [name |-> "empty.pdf", size |-> 0],
           [name |-> "report.docx", size |-> 2048] }

RECURSIVE SeqsUpTo(_, _)
SeqsUpTo(S, n) ==
    IF n = 0 THEN {<<>>}
    ELSE LET shorter == SeqsUpTo(S, n - 1)
         IN shorter \cup {Append(q, x) : q \in shorter, x \in S}

Uploads == SeqsUpTo(Files, MaxUploaded)

HasStats == "file_stats" \in DOMAIN session_state

FileStats == session_state["file_stats"]

SessionInit ==
    /\ session_state = <<>>
    /\ uploaded_files = <<>>
    /\ pc = "idle"
    /\ i = 0
    /\ current_stats = <<>>
    /\ text_content = NoText
    /\ fs = {}
    /\ state = <<>>
    /\ calls = 0
    /\ run_no = 0
    /\ uploaded_total = 0
    /\ view = <<>>
    /\ reduction = Unbound
    /\ e = "none"
    /\ caught = <<>>

NoOutput == [unit |-> "", hundredths |-> 0]

Init ==
    /\ SessionInit
    /\ fmt_in = Bytes(0)
    /\ fmt_out = NoOutput

\* line 79, with the old list kept instead
StaleStats == IF HasStats THEN FileStats ELSE <<>>

\* line 79
FreshStats == <<>>

\* lines 65-66 without the test
InitStatsAlways(ss) == ("file_stats" :> <<>>) @@ ss

\* lines 65-66
InitStats(ss) == IF "file_stats" \in DOMAIN ss THEN ss ELSE ("file_stats" :> <<>>) @@ ss

\* lines 64-80: a run of the script starts with the uploader's value
ScriptRun ==
    /\ pc = "idle"
    /\ \E files \in Uploads :
        /\ uploaded_total + Len(files) <= MaxUploaded
        /\ uploaded_files' = files
        /\ session_state' = InitStats(session_state)
        /\ IF files # <<>>
           THEN /\ current_stats' = FreshStats
                /\ i' = 0
                /\ state' = [k \in 1..Len(files) |-> "Pending"]
                /\ calls' = 0
                /\ caught' = [k \in 1..Len(files) |-> "none"]
                /\ run_no' = run_no + 1
                /\ uploaded_total' = uploaded_total + Len(files)
                /\ pc' = "for"
           ELSE /\ UNCHANGED <<current_stats, i, state, calls, caught, run_no,
                               uploaded_total>>
                /\ pc' = "tab2"
    /\ UNCHANGED <<text_content, fs, view, reduction, e, fmtVars>>

\* lines 81-84: the loop takes the next file and enters its try block
ForNext ==
    /\ pc = "for"
    /\ i < Len(uploaded_files)
    /\ i' = i + 1
    /\ state' = [state EXCEPT ![i + 1] = "Converting"]
    /\ calls' = 0
    /\ pc' = "call"
    /\ UNCHANGED <<session_state, uploaded_files, current_stats, text_content,
                   fs, e, caught, run_no, uploaded_total, view, reduction,
                   fmtVars>>

\* line 85
CallProcessFile ==
    /\ pc = "call"
    /\ \E env \in Envs :
        LET r == process_file(uploaded_files[i], NewName(fs), env, fs)
        IN /\ fs' = r.fs
           /\ calls' = calls + (IF r.called THEN 1 ELSE 0)
           /\ IF r.raised # "none"
              THEN /\ e' = r.raised
                   /\ caught' = [caught EXCEPT ![i] = "process_file"]
                   /\ pc' = "except"
                   /\ UNCHANGED text_content
              ELSE /\ text_content' = r.text
                   /\ pc' = "stats"
                   /\ UNCHANGED <<e, caught>>
    /\ UNCHANGED <<session_state, uploaded_files, i, current_stats, state,
                   run_no, uploaded_total, view, reduction, fmtVars>>

\* the list after lines 88-104
AppendStat(stats, entry) == Append(stats, entry)

\* lines 88-104
SizeStats ==
    /\ pc = "stats"
    /\ IF ~text_content.enc                               \* line 90 raises
       THEN /\ e' = "UnicodeEncodeError"
            /\ caught' = [caught EXCEPT ![i] = "stats"]
            /\ pc' = "except"
            /\ UNCHANGED <<current_stats, reduction>>
       ELSE LET original_size == uploaded_files[i].size
                converted_size == text_content.len
                r == Reduction(original_size, converted_size)
            IN IF r.raised                                \* line 94 raises
               THEN /\ e' = "ZeroDivisionError"
                    /\ caught' = [caught EXCEPT ![i] = "stats"]
                    /\ pc' = "except"
                    /\ UNCHANGED <<current_stats, reduction>>
               ELSE /\ reduction' = r.value
                    /\ current_stats' =
                         AppendStat(current_stats,
                                    stat_entry(uploaded_files[i], converted_size,
                                               r.value, <<run_no, i>>))
                    /\ pc' = "render"
                    /\ UNCHANGED <<e, caught>>
    /\ UNCHANGED <<session_state, uploaded_files, i, text_content, fs, state,
                   calls, run_no, uploaded_total, view, fmtVars>>

\* st.session_state after a file's block, were the block to store the list
SessionStoredPerFile == ("file_stats" :> current_stats) @@ session_state

\* st.session_state after a file's block, lines 82-137: not written
SessionAfterFile == session_state

\* lines 106-134: preview and download widgets; a widget call may raise
Render ==
    /\ pc = "render"
    /\ \E ok \in BOOLEAN :
        IF ok
        THEN /\ state' = [state EXCEPT ![i] = "Succeeded"]
             /\ pc' = "for"
             /\ session_state' = SessionAfterFile
             /\ UNCHANGED <<e, caught>>
        ELSE /\ e' = "StreamlitAPIException"
             /\ caught' = [caught EXCEPT ![i] = "render"]
             /\ pc' = "except"
             /\ UNCHANGED <<state, session_state>>
    /\ UNCHANGED <<uploaded_files, i, current_stats, text_content,
                   fs, calls, run_no, uploaded_total, view, reduction, fmtVars>>

\* the except clause ending the batch: the rest of the script is skipped
AfterExceptAbort == "tab2"

\* the except clause ending the run: nothing of the script runs after it
AfterExceptFatal == "crashed"

\* the except clause trying the file again
AfterExceptRetry == "call"

\* where the script goes after the except clause of lines 136-137
AfterExcept == "for"

\* lines 136-137: st.error names the file; the loop goes on
Except ==
    /\ pc = "except"
    /\ state' = [state EXCEPT ![i] = "Failed"]
    /\ pc' = AfterExcept
    /\ session_state' = SessionAfterFile
    /\ e' = "none"
    /\ UNCHANGED <<uploaded_files, i, current_stats, text_content, fs, calls,
                   caught, run_no, uploaded_total, view, reduction, fmtVars>>

\* line 140
StoreStats ==
    /\ pc = "for"
    /\ i = Len(uploaded_files)
    /\ session_state' = [session_state EXCEPT !["file_stats"] = current_stats]
    /\ pc' = "tab2"
    /\ UNCHANGED <<uploaded_files, i, current_stats, text_content, fs, state,
                   calls, e, caught, run_no, uploaded_total, view, reduction,
                   fmtVars>>

\* lines 143-165: the comparison tab lists the stored entries; the run ends
\* and its namespace (the script's variables) goes with it
Tab2 ==
    /\ pc = "tab2"
    /\ view' = FileStats
    /\ pc' = "idle"
    /\ uploaded_files' = <<>>
    /\ i' = 0
    /\ current_stats' = <<>>
    /\ text_content' = NoText
    /\ reduction' = Unbound
    /\ caught' = <<>>
    /\ state' = <<>>
    /\ calls' = 0
    /\ UNCHANGED e
    /\ UNCHANGED <<session_state, fs, run_no, uploaded_total, fmtVars>>

Next ==
    \/ ScriptRun
    \/ ForNext
    \/ CallProcessFile
    \/ SizeStats
    \/ Render
    \/ Except
    \/ StoreStats
    \/ Tab2

Spec == Init /\ [][Next]_vars

\* a step of a started run
RunStep ==
    \/ ForNext
    \/ CallProcessFile
    \/ SizeStats
    \/ Render
    \/ Except
    \/ StoreStats
    \/ Tab2

\* Every step of a started run is taken: the script runs on its own once the
\* user's interaction has started it, and each library call returns or raises.
\* Starting a run (ScriptRun) is the user's choice and is not forced.
FairSpec == Spec /\ WF_vars(RunStep)

-----------------------------------------------------------------------------
(* format_size on its own: every argument of a bounded set *)

DigitVals == {0, 1, 512, 1019, 1023}

FmtInputs ==
    { <<d1, d2, d3, d4, d5, d6>> :
        d1 \in DigitVals, d2 \in DigitVals, d3 \in DigitVals,
        d4 \in DigitVals, d5 \in DigitVals, d6 \in 0..MaxTop }

FmtInit ==
    /\ SessionInit
    /\ fmt_in \in FmtInputs
    /\ fmt_out = NoOutput

FmtCall ==
    /\ fmt_out = NoOutput
    /\ fmt_out' = format_size(fmt_in)
    /\ UNCHANGED <<fmt_in, sessionVars>>

FmtNext == FmtCall

FmtSpec == FmtInit /\ [][FmtNext]_vars

-----------------------------------------------------------------------------
(* Vocabulary of the properties *)

Terminal == {"Succeeded", "Failed"}

AllTerminal == \A k \in DOMAIN state : state[k] \in Terminal

\* positions of the script inside the batch loop
BatchPcs == {"for", "call", "stats", "render", "except"}

\* line 140 has just run for a non-empty batch
BatchStored == pc = "tab2" /\ uploaded_files # <<>>

Srcs(stats) == [k \in 1..Len(stats) |-> stats[k].src]

\* the positions 1..n that pass Keep, in order, tagged with the batch
Kept(n, Keep(_)) ==
    LET idx == SelectSeq([k \in 1..n |-> k], Keep)
    IN [j \in 1..Len(idx) |-> <<run_no, idx[j]>>]

NamesMatch(stats) ==
    \A j \in 1..Len(stats) :
        /\ stats[j].src[2] \in 1..Len(uploaded_files)
        /\ stats[j].FileName = uploaded_files[stats[j].src[2]].name

\* the steps whose exception leaves a file's block before line 104 appends
BeforeAppend == {"process_file", "stats"}

-----------------------------------------------------------------------------
(* C1 *)

\* C1: whenever no call of process_file is in progress (every state of this
\* model, where a call is one step), no transient file exists: each call's
\* file is gone when the call returns or propagates its error.
C1_TransientFileReleased == fs = {}

-----------------------------------------------------------------------------
(* C2 *)

\* C2 as stated: once a batch is stored, every file is terminal and the stored
\* list holds, in upload order, exactly one entry for each file whose
\* conversion (process_file) did not fail.
C2_OneEntryPerConverted ==
    BatchStored =>
        /\ AllTerminal
        /\ HasStats
        /\ Srcs(FileStats) =
             Kept(Len(uploaded_files), LAMBDA k : caught[k] # "process_file")
        /\ NamesMatch(FileStats)

\* C2 amended: once a batch is stored, every file is terminal and the stored
\* list holds, in upload order, exactly one entry for each file whose
\* conversion and size accounting (lines 85-104) both completed.
C2_OneEntryPerAccounted ==
    BatchStored =>
        /\ AllTerminal
        /\ HasStats
        /\ Srcs(FileStats) =
             Kept(Len(uploaded_files), LAMBDA k : caught[k] \notin BeforeAppend)
        /\ NamesMatch(FileStats)

\* three files, the second one's conversion fails: two entries, files 1 and 3
C2_Witness ==
    /\ BatchStored
    /\ caught = <<"none", "process_file", "none">>
    /\ Srcs(FileStats) = <<(<<run_no, 1>>), (<<run_no, 3>>)>>

-----------------------------------------------------------------------------
(* C3 *)

\* C3: after a batch has been processed (the run is past line 140, or over),
\* every stored entry comes from the most recent non-empty batch, and no
\* position of that batch has two entries.
C3_OnlyLatestBatch ==
    (pc \in {"tab2", "idle"} /\ HasStats) =>
        /\ \A j \in 1..Len(FileStats) : FileStats[j].src[1] = run_no
        /\ \A j \in 1..(Len(FileStats) - 1) :
               FileStats[j].src[2] < FileStats[j + 1].src[2]
        /\ BatchStored => Len(FileStats) <= Len(uploaded_files)

\* batch A left two entries (still on the comparison tab), batch B, one file,
\* has just been stored: one entry
C3_Witness ==
    /\ BatchStored
    /\ run_no = 2
    /\ Len(uploaded_files) = 1
    /\ Len(view) = 2
    /\ Len(FileStats) = 1

-----------------------------------------------------------------------------
(* C4 *)

\* C4: once a batch is stored, no file that ended Failed has an entry in the
\* stored list.
C4_FailedHasNoEntry ==
    BatchStored =>
        \A k \in DOMAIN state :
            state[k] = "Failed" =>
                \A j \in 1..Len(FileStats) : FileStats[j].src # <<run_no, k>>

-----------------------------------------------------------------------------
(* C5 *)

\* C5: a run that has started ends; when it reaches the comparison tab every
\* file of its batch is terminal and the batch's list is the stored one; and
\* a run that has ended accepts a further batch (as long as the session's
\* upload bound leaves room for one).
C5_NoErrorIsFatal ==
    /\ (pc # "idle") ~> (pc = "idle")
    /\ [](pc = "tab2" =>
            /\ AllTerminal
            /\ HasStats
            /\ uploaded_files # <<>> => FileStats = current_stats)
    /\ [](pc = "idle" /\ uploaded_total < MaxUploaded
            => ENABLED (ScriptRun /\ pc' = "for"))

\* a second batch stored after a batch whose only file failed and leaked
C5_Witness ==
    /\ BatchStored
    /\ run_no = 2
    /\ fs # {}
    /\ \E k \in DOMAIN state : state[k] = "Failed"
    /\ \E k \in DOMAIN state : state[k] = "Succeeded"

-----------------------------------------------------------------------------
(* C6 *)

\* C6: no ZeroDivisionError is ever raised, and after the size
\* accounting of a 0-byte file the reduction is exactly 0, and so is the
\* number in its entry's label.
C6_ZeroOriginalSize ==
    /\ e # "ZeroDivisionError"
    /\ (pc = "render" /\ uploaded_files[i].size = 0) =>
           /\ reduction = Zero
           /\ current_stats[Len(current_stats)].Reduction = 0

\* a 0-byte file whose converted text is not empty
C6_Witness ==
    /\ pc = "render"
    /\ uploaded_files[i].size = 0
    /\ text_content.len > 0
    /\ reduction = Zero

-----------------------------------------------------------------------------
(* C7 *)

UnitNames == <<"B", "KB", "MB", "GB", "TB">>

\* n < 1024^p, for n given by its digits
BelowPow(d, p) == AllZero(SubSeq(d, p + 1, Len(d)))

\* the smallest k in 0..3 with n < 1024^(k+1), or 4
ExpectedK(d) ==
    IF \E k \in 0..3 : BelowPow(d, k + 1)
    THEN CHOOSE k \in 0..3 :
             BelowPow(d, k + 1) /\ \A m \in 0..(k - 1) : ~BelowPow(d, m + 1)
    ELSE 4

RECURSIVE BigTimes(_, _, _)
\* digits of d * m + c, least significant first, one digit per digit of d
BigTimes(d, m, c) ==
    IF d = <<>> THEN <<>>
    ELSE LET p == Head(d) * m + c
         IN <<p % Kilo>> \o BigTimes(Tail(d), m, p \div Kilo)

RECURSIVE BigCmp(_, _)
\* -1, 0, 1 as a < b, a = b, a > b, for digit sequences of one length
BigCmp(a, b) ==
    IF a = <<>> THEN 0
    ELSE LET c == BigCmp(Tail(a), Tail(b))
         IN IF c # 0 THEN c
            ELSE IF Head(a) < Head(b) THEN 0 - 1
            ELSE IF Head(a) > Head(b) THEN 1 ELSE 0

Pad8(d) == d \o [j \in 1..(8 - Len(d)) |-> 0]

\* x * 1024^k as eight digits, for a small natural x
Scaled(x, k) == Pad8([j \in 1..k |-> 0] \o Digits(x, 3))

\* h is n / 1024^k times 100 rounded to the nearest integer, halves to even:
\* (2h - 1) * 1024^k <= 200 n <= (2h + 1) * 1024^k, and h is even at a bound
RoundsTo(d, k, h) ==
    LET n200 == BigTimes(Pad8(d), 200, 0)
        hi == BigCmp(n200, Scaled(2 * h + 1, k))
        lo == IF h = 0 THEN 1 ELSE BigCmp(n200, Scaled(2 * h - 1, k))
    IN /\ hi <= 0
       /\ lo >= 0
       /\ (hi = 0 \/ lo = 0) => h % 2 = 0

\* the four values the description of format_size gives
FmtExamples ==
    /\ fmt_in = Bytes(0) => fmt_out = [unit |-> "B", hundredths |-> 0]
    /\ fmt_in = Bytes(1023) => fmt_out = [unit |-> "B", hundredths |-> 102300]
    /\ fmt_in = Bytes(1024) => fmt_out = [unit |-> "KB", hundredths |-> 100]
    /\ fmt_in = Bytes(1024 * 1024) => fmt_out = [unit |-> "MB", hundredths |-> 100]

-----------------------------------------------------------------------------
(* C8 *)

\* C8: st.session_state changes only in the step of line 140, taken when every
\* file of the batch is terminal, and then to the complete list; while the
\* batch loop runs, the stored list holds no entry of the current batch.
C8_StatsReplacedAtBatchEnd ==
    /\ [][(HasStats /\ session_state' # session_state) =>
            /\ pc = "for"
            /\ i = Len(uploaded_files)
            /\ AllTerminal
            /\ pc' = "tab2"
            /\ session_state' = ("file_stats" :> current_stats)]_vars
    /\ []((pc \in BatchPcs /\ HasStats) =>
            \A j \in 1..Len(FileStats) : FileStats[j].src[1] < run_no)

\* in the middle of a second batch: the new list has an entry, the stored
\* list still is the first batch's
C8_Witness ==
    /\ pc = "call"
    /\ run_no = 2
    /\ i = 2
    /\ current_stats # <<>>
    /\ FileStats # <<>>
    /\ \A j \in 1..Len(FileStats) : FileStats[j].src[1] = 1

-----------------------------------------------------------------------------
(* C9 *)

\* a step of one batch (the run neither starts nor ends)
SameBatch == run_no' = run_no /\ DOMAIN state' = DOMAIN state /\ state # <<>>

\* C9: within a batch a file's state only moves Pending -> Converting ->
\* Succeeded or Failed; the converter is invoked at most once for the file the
\* loop is at (calls counts from the moment the loop takes the file), and only
\* while that file is Converting; a file leaves Pending only when every
\* earlier file is terminal, so files are taken in upload order.
C9_PerFileStateMachine ==
    /\ [][SameBatch =>
            \A k \in DOMAIN state :
                \/ state'[k] = state[k]
                \/ state[k] = "Pending" /\ state'[k] = "Converting"
                \/ state[k] = "Converting" /\ state'[k] \in Terminal]_vars
    /\ [][(SameBatch /\ calls' # calls /\ calls' # 0) =>
            (i' = i /\ state[i] = "Converting")]_vars
    /\ [](calls <= 1)
    /\ [](\A k \in DOMAIN state :
            state[k] # "Pending" => \A j \in 1..(k - 1) : state[j] \in Terminal)

\* first file failed after its converter call, second is at the call, third waits
C9_Witness ==
    /\ state = <<"Failed", "Converting", "Pending">>
    /\ caught = <<"process_file", "none", "none">>
    /\ fs = {}
    /\ calls = 0
    /\ pc = "call"

-----------------------------------------------------------------------------
(* C10 *)

\* the step is a run with no uploaded file reaching the comparison tab
EmptyRunStarts == pc = "idle" /\ pc' = "tab2"

\* the step is line 140
StoreStep == pc = "for" /\ pc' = "tab2"

\* C10: a run with an empty upload does not change the stored list (once it
\* exists) and its comparison tab shows that list; and line 140 stores an
\* empty list only for a batch in which no file succeeded, the stored list
\* going from non-empty to empty in no other step.
C10_EmptyUploadKeepsStats ==
    /\ [][(EmptyRunStarts /\ HasStats) => session_state' = session_state]_vars
    /\ [][(pc = "tab2" /\ uploaded_files = <<>>) =>
            (session_state' = session_state /\ view' = FileStats)]_vars
    /\ [][(HasStats /\ FileStats' = <<>> /\ (FileStats # <<>> \/ StoreStep)) =>
            /\ StoreStep
            /\ uploaded_files # <<>>
            /\ \A k \in DOMAIN state : state[k] # "Succeeded"]_vars

\* a run with an empty upload after a batch that left entries
C10_Witness ==
    /\ pc = "tab2"
    /\ uploaded_files = <<>>
    /\ run_no >= 1
    /\ FileStats # <<>>
    /\ view = FileStats

====
